---- MODULE Spec2Model ----
(***************************************************************************)
(* Model of book_smith_ai/module.py: the PerplexityBookGenerator client    *)
(* (constructor, send_api_payload, generate_book_spec, _dict_to_namespace) *)
(* and the constructor and generate_book_concept of the older copy of the  *)
(* module kept under src/book_smith_ai/; and the with_spinner decorator,   *)
(* whose wrapper runs the wrapped function while a thread draws a spinner. *)
(*                                                                         *)
(* Text is a sequence of one-character strings, so that str.replace,       *)
(* re.sub and json.loads work on characters as they do in Python.          *)
(* Python values are tagged records [t |-> kind, v |-> payload].           *)
(***************************************************************************)
EXTENDS Integers, Sequences, FiniteSets, TLC

VARIABLES
    client,       \* the PerplexityBookGenerator the caller holds, or NoClient
    netCalls,     \* requests.post calls made so far
    invocations,  \* send_api_payload invocations so far
    last,         \* the most recent call: its inputs and its outcome
    lastOk,       \* what the latest successful generate_book_spec of the
                  \* client returned, Unset before there is one
    fin,          \* input of a function under study
    fout,         \* its results
    sp            \* a call of a function wrapped by with_spinner: where the
                  \* wrapper and the spin thread are, the stop event, the
                  \* terminal line

vars == <<client, netCalls, invocations, last, lastOk, fin, fout, sp>>

-----------------------------------------------------------------------------
(* Literals of the source.                                                 *)

THINK_OPEN == <<"<", "t", "h", "i", "n", "k", ">">>

THINK_CLOSE == <<"<", "/", "t", "h", "i", "n", "k", ">">>

\* the backquote character (a TLA+ string cannot hold it)
BQ == "BACKQUOTE"

FENCE_OPEN == <<BQ, BQ, BQ, "j", "s", "o", "n", "\n">>

FENCE_CLOSE == <<"\n", BQ, BQ, BQ>>

BASE_URL == "https://api.perplexity.ai/chat/completions"

CITATION_SUFFIX == "Do not include any citations in your response. "

DEFAULT_ROLE == "You are a helpful assistant."

DEFAULT_MODEL == "r1-1776"

\* temperature 0.7, kept in tenths
DEFAULT_TEMP == 7

-----------------------------------------------------------------------------
(* Python values.                                                          *)

PyNone == [t |-> "none", v |-> 0]

PyStr(s) == [t |-> "str", v |-> s]

PyInt(n) == [t |-> "int", v |-> n]

PyBool(b) == [t |-> "bool", v |-> b]

PyList(xs) == [t |-> "list", v |-> xs]

\* a dict is a function from its keys (texts) to values
PyDict(f) == [t |-> "dict", v |-> f]

\* types.SimpleNamespace: a function from attribute names to values
PyNamespace(f) == [t |-> "ns", v |-> f]

EmptyMap == [k \in {} |-> PyNone]

MapPut(f, key, val) ==
    [k \in (DOMAIN f) \cup {key} |-> IF k = key THEN val ELSE f[k]]

-----------------------------------------------------------------------------
(* Text primitives: str.replace(old, "") and re.sub.                       *)

\* does pattern p occur in s starting at index i
MatchAt(s, p, i) ==
    /\ i >= 1
    /\ i + Len(p) - 1 <= Len(s)
    /\ \A k \in 1..Len(p) : s[i + k - 1] = p[k]

\* str.find(p, i): first index >= i at which p occurs in s, 0 when there
\* is none
Find(s, p, i) ==
    LET hits == {j \in i..(Len(s) - Len(p) + 1) : MatchAt(s, p, j)} IN
    IF hits = {} THEN 0
    ELSE CHOOSE j \in hits : \A k \in hits : j <= k

RECURSIVE ReplaceFrom(_, _, _)
\* the text from index i on with every occurrence of old taken out
ReplaceFrom(s, old, i) ==
    LET j == Find(s, old, i) IN
    IF j = 0 THEN SubSeq(s, i, Len(s))
    ELSE SubSeq(s, i, j - 1) \o ReplaceFrom(s, old, j + Len(old))

\* s.replace(old, ""): every non-overlapping occurrence, left to right
str_replace(s, old) == ReplaceFrom(s, old, 1)

\* the regular expression class \s on the characters of the model
IsSpace(c) == c \in {" ", "\n", "\t", "\r"}

\* index of the first character at or after i that is not whitespace
SkipSpace(s, i) ==
    IF i > Len(s) \/ ~IsSpace(s[i]) THEN i
    ELSE LET stops == {j \in i..Len(s) : ~IsSpace(s[j])} IN
         IF stops = {} THEN Len(s) + 1
         ELSE CHOOSE j \in stops : \A k \in stops : j <= k

RECURSIVE ReSubFrom(_, _)
\* re.sub(r"<think>.*?</think>\s*", "", s, flags=re.DOTALL) from index i:
\* the leftmost "<think>" that has a "</think>" after it starts a match,
\* the match ends after the nearest "</think>" and the whitespace behind
\* it; no count is given, so the search goes on behind each match
ReSubFrom(s, i) ==
    LET open  == Find(s, THINK_OPEN, i)
        close == IF open = 0 THEN 0
                 ELSE Find(s, THINK_CLOSE, open + Len(THINK_OPEN))
    IN  IF close = 0 THEN SubSeq(s, i, Len(s))
        ELSE SubSeq(s, i, open - 1)
             \o ReSubFrom(s, SkipSpace(s, close + Len(THINK_CLOSE)))

\* re.sub with count=1: only the first match is replaced
re_sub_First(s) ==
    LET open  == Find(s, THINK_OPEN, 1)
        close == IF open = 0 THEN 0
                 ELSE Find(s, THINK_CLOSE, open + Len(THINK_OPEN))
    IN  IF close = 0 THEN s
        ELSE SubSeq(s, 1, open - 1)
             \o SubSeq(s, SkipSpace(s, close + Len(THINK_CLOSE)), Len(s))

re_sub(s) == ReSubFrom(s, 1)

-----------------------------------------------------------------------------
(* json.loads on the JSON subset the model's texts use: objects, arrays,   *)
(* strings without escapes, integers, true/false/null and whitespace.      *)

PFail == [ok |-> FALSE, val |-> PyNone, pos |-> 0]

POk(val, pos) == [ok |-> TRUE, val |-> val, pos |-> pos]

IsDigit(c) == c \in {"0", "1", "2", "3", "4", "5", "6", "7", "8", "9"}

DigitVal(c) ==
    CASE c = "0" -> 0 [] c = "1" -> 1 [] c = "2" -> 2 [] c = "3" -> 3
      [] c = "4" -> 4 [] c = "5" -> 5 [] c = "6" -> 6 [] c = "7" -> 7
      [] c = "8" -> 8 [] c = "9" -> 9

\* whitespace of the JSON decoder: " \t\n\r"
JsonSkip(s, i) ==
    IF i > Len(s) \/ s[i] \notin {" ", "\t", "\n", "\r"} THEN i
    ELSE LET stops == {j \in i..Len(s) : s[j] \notin {" ", "\t", "\n", "\r"}}
         IN  IF stops = {} THEN Len(s) + 1
             ELSE CHOOSE j \in stops : \A k \in stops : j <= k

RECURSIVE ScanString(_, _, _)
\* s[i-1] opened a string; strict mode rejects control characters
ScanString(s, i, acc) ==
    IF i > Len(s) THEN PFail
    ELSE IF s[i] = "\"" THEN POk(PyStr(acc), i + 1)
    ELSE IF s[i] \in {"\n", "\t", "\r", "\\"} THEN PFail
    ELSE ScanString(s, i + 1, Append(acc, s[i]))

RECURSIVE ScanDigits(_, _, _)
ScanDigits(s, i, acc) ==
    IF i <= Len(s) /\ IsDigit(s[i])
    THEN ScanDigits(s, i + 1, acc * 10 + DigitVal(s[i]))
    ELSE POk(PyInt(acc), i)

\* an integer: "0" or a non-zero digit followed by digits
ScanNumber(s, i) ==
    IF s[i] = "0" THEN POk(PyInt(0), i + 1) ELSE ScanDigits(s, i, 0)

RECURSIVE ParseValue(_, _)
RECURSIVE ParseMembers(_, _, _)
RECURSIVE ParseElements(_, _, _)

\* scan_once: the value that starts exactly at index i
ParseValue(s, i) ==
    IF i > Len(s) THEN PFail
    ELSE IF s[i] = "\"" THEN ScanString(s, i + 1, <<>>)
    ELSE IF s[i] = "{" THEN
        LET j == JsonSkip(s, i + 1) IN
        IF j <= Len(s) /\ s[j] = "}" THEN POk(PyDict(EmptyMap), j + 1)
        ELSE ParseMembers(s, j, EmptyMap)
    ELSE IF s[i] = "[" THEN
        LET j == JsonSkip(s, i + 1) IN
        IF j <= Len(s) /\ s[j] = "]" THEN POk(PyList(<<>>), j + 1)
        ELSE ParseElements(s, j, <<>>)
    ELSE IF MatchAt(s, <<"n", "u", "l", "l">>, i) THEN POk(PyNone, i + 4)
    ELSE IF MatchAt(s, <<"t", "r", "u", "e">>, i) THEN POk(PyBool(TRUE), i + 4)
    ELSE IF MatchAt(s, <<"f", "a", "l", "s", "e">>, i)
         THEN POk(PyBool(FALSE), i + 5)
    ELSE IF IsDigit(s[i]) THEN ScanNumber(s, i)
    ELSE PFail

\* JSONObject after "{": a key must start at i; a repeated key keeps the
\* last value
ParseMembers(s, i, acc) ==
    IF i > Len(s) \/ s[i] # "\"" THEN PFail
    ELSE
      LET key == ScanString(s, i + 1, <<>>) IN
      IF ~key.ok THEN PFail
      ELSE
        LET c == JsonSkip(s, key.pos) IN
        IF c > Len(s) \/ s[c] # ":" THEN PFail
        ELSE
          LET val == ParseValue(s, JsonSkip(s, c + 1)) IN
          IF ~val.ok THEN PFail
          ELSE
            LET m   == JsonSkip(s, val.pos)
                map == MapPut(acc, key.val.v, val.val)
            IN  IF m > Len(s) THEN PFail
                ELSE IF s[m] = "}" THEN POk(PyDict(map), m + 1)
                ELSE IF s[m] = "," THEN ParseMembers(s, JsonSkip(s, m + 1), map)
                ELSE PFail

\* JSONArray after "[": an element must start at i
ParseElements(s, i, acc) ==
    LET val == ParseValue(s, i) IN
    IF ~val.ok THEN PFail
    ELSE
      LET m == JsonSkip(s, val.pos) IN
      IF m > Len(s) THEN PFail
      ELSE IF s[m] = "]" THEN POk(PyList(Append(acc, val.val)), m + 1)
      ELSE IF s[m] = "," THEN
          ParseElements(s, JsonSkip(s, m + 1), Append(acc, val.val))
      ELSE PFail

\* json.loads(s): one value with optional whitespace around it; anything
\* else is a JSONDecodeError (ok = FALSE)
json_loads(s) ==
    LET r == ParseValue(s, JsonSkip(s, 1)) IN
    IF r.ok /\ JsonSkip(s, r.pos) = Len(s) + 1 THEN r ELSE PFail

-----------------------------------------------------------------------------
(* _dict_to_namespace.                                                     *)

RECURSIVE dict_to_namespace_Shallow(_)
\* lists returned as they are, without converting their items
dict_to_namespace_Shallow(data) ==
    IF data.t = "dict" THEN
        PyNamespace([k \in DOMAIN data.v |->
                        dict_to_namespace_Shallow(data.v[k])])
    ELSE data

RECURSIVE dict_to_namespace(_)
\* dict -> SimpleNamespace of the converted values, list -> list of the
\* converted items, anything else unchanged
dict_to_namespace(data) ==
    IF data.t = "dict" THEN
        PyNamespace([k \in DOMAIN data.v |-> dict_to_namespace(data.v[k])])
    ELSE IF data.t = "list" THEN
        PyList([i \in 1..Len(data.v) |-> dict_to_namespace(data.v[i])])
    ELSE data

-----------------------------------------------------------------------------
(* The client object and the outcome of a call.                            *)

\* an attribute that has not been assigned
Unset == [t |-> "unset", v |-> 0]

NoClient == [variant |-> "none"]

\* bool(x) of an environment value or a constructor argument
Truthy(x) == x.t = "str" /\ x.v # ""

\* f"Bearer {token}"
Bearer(token) == <<"Bearer ", token>>

\* outcome of a call: the exception raised ("none" when it returned), the
\* status an HTTPError carries, the value returned, the number of
\* requests.post calls made, and the object after the call
Outcome(exc, excStatus, ret, posts, self) ==
    [exc |-> exc, excStatus |-> excStatus, ret |-> ret, posts |-> posts,
     self |-> self]

Raised(exc, posts, self) == Outcome(exc, 0, PyNone, posts, self)

\* what a constructor call evaluates to when it does not raise
NewObject == [t |-> "object", v |-> "PerplexityBookGenerator"]

\* PerplexityBookGenerator(book_idea, dry_run) with PERPLEXITY_API_KEY = env
\* (PyNone when the variable is not set)
init(env, book_idea, dry_run) ==
    IF ~Truthy(env) THEN Raised("ValueError", 0, NoClient)
    ELSE Outcome("none", 0, NewObject, 0,
            [variant   |-> "current",
             api_key   |-> env,
             base_url  |-> BASE_URL,
             headers   |-> [Authorization |-> Bearer(env.v),
                            ContentType   |-> "application/json"],
             book_idea |-> book_idea,
             dry_run   |-> PyBool(dry_run),
             payload   |-> Unset,
             book_spec |-> Unset])

\* the constructor of the older copy of the module:
\* PerplexityBookGenerator(api_key, book_idea); it tests and sends the
\* argument but stores os.getenv("PERPLEXITY_API_KEY")
legacy_init(api_key, env, book_idea) ==
    IF ~Truthy(api_key) THEN Raised("ValueError", 0, NoClient)
    ELSE Outcome("none", 0, NewObject, 0,
            [variant   |-> "legacy",
             api_key   |-> env,
             base_url  |-> BASE_URL,
             headers   |-> [Authorization |-> Bearer(api_key.v),
                            ContentType   |-> "application/json"],
             book_idea |-> book_idea,
             dry_run   |-> Unset,
             payload   |-> Unset,
             book_spec |-> Unset])

-----------------------------------------------------------------------------
(* send_api_payload.                                                       *)

K_choices == <<"c", "h", "o", "i", "c", "e", "s">>

K_message == <<"m", "e", "s", "s", "a", "g", "e">>

K_content == <<"c", "o", "n", "t", "e", "n", "t">>

Got(val) == [exc |-> "none", val |-> val]

Threw(exc) == [exc |-> exc, val |-> PyNone]

\* x[key] for a string key
GetKey(x, key) ==
    IF x.t = "dict"
    THEN IF key \in DOMAIN x.v THEN Got(x.v[key]) ELSE Threw("KeyError")
    ELSE Threw("TypeError")

\* x[0]
GetFirst(x) ==
    IF x.t = "list"
    THEN IF Len(x.v) >= 1 THEN Got(x.v[1]) ELSE Threw("IndexError")
    ELSE IF x.t = "str"
    THEN IF Len(x.v) >= 1 THEN Got(PyStr(<<x.v[1]>>)) ELSE Threw("IndexError")
    ELSE IF x.t = "dict" THEN Threw("KeyError")
    ELSE Threw("TypeError")

\* result["choices"][0]["message"]["content"]
ContentOf(result) ==
    LET a == GetKey(result, K_choices) IN
    IF a.exc # "none" THEN a ELSE
    LET b == GetFirst(a.val) IN
    IF b.exc # "none" THEN b ELSE
    LET c == GetKey(b.val, K_message) IN
    IF c.exc # "none" THEN c ELSE GetKey(c.val, K_content)

\* raise_for_status() left out: no status raises
RaisesForStatus_Never(status) == FALSE

\* Response.raise_for_status(): HTTPError for 4xx and 5xx, nothing otherwise
RaisesForStatus(status) == 400 <= status /\ status < 600

\* a transport that repeats the request after a 5xx answer
requests_post_Retry(url, headers, payload, resp) ==
    [calls |-> IF resp.connected /\ resp.status >= 500 THEN 2 ELSE 1,
     url |-> url, headers |-> headers, response |-> resp]

\* requests.post(self.base_url, headers=self.headers, json=self.payload):
\* one request, answered by resp
requests_post(url, headers, payload, resp) ==
    [calls |-> 1, url |-> url, headers |-> headers, response |-> resp]

\* the request's Content-Type written into the client's own headers
send_api_payload_SharedHeaders(self, prompt, role, model, temp, debug, resp) ==
    LET payload == [model       |-> model,
                    messages    |-> <<[role    |-> "system",
                                       content |-> <<role, CITATION_SUFFIX>>],
                                      [role    |-> "user",
                                       content |-> prompt]>>,
                    temperature |-> temp]
        self1 == [self EXCEPT !.payload = payload,
                              !.headers.ContentType = "application/json; charset=utf-8"]
        post  == requests_post(self1.base_url, self1.headers, payload, resp)
        posts == post.calls
    IN  IF ~resp.connected THEN Raised("ConnectionError", posts, self1)
        ELSE IF RaisesForStatus(resp.status)
             THEN Outcome("HTTPError", resp.status, PyNone, posts, self1)
        ELSE IF ~resp.body.json THEN Raised("JSONDecodeError", posts, self1)
        ELSE LET c == ContentOf(resp.body.value) IN
             IF c.exc # "none" THEN Raised(c.exc, posts, self1)
             ELSE IF debug THEN Outcome("none", 0, c.val, posts, self1)
             ELSE IF c.val.t # "str" THEN Raised("TypeError", posts, self1)
             ELSE Outcome("none", 0, PyStr(re_sub(c.val.v)), posts, self1)

\* send_api_payload(prompt, role, model, temp, debug) when the transport
\* answers resp = [connected, status, body]; body = [json, value] is the
\* body and what Response.json() decodes from it
send_api_payload(self, prompt, role, model, temp, debug, resp) ==
    LET payload == [model       |-> model,
                    messages    |-> <<[role    |-> "system",
                                       content |-> <<role, CITATION_SUFFIX>>],
                                      [role    |-> "user",
                                       content |-> prompt]>>,
                    temperature |-> temp]
        self1 == [self EXCEPT !.payload = payload]
        post  == requests_post(self1.base_url, self1.headers, payload, resp)
        posts == post.calls
    IN  IF ~resp.connected THEN Raised("ConnectionError", posts, self1)
        ELSE IF RaisesForStatus(resp.status)
             THEN Outcome("HTTPError", resp.status, PyNone, posts, self1)
        ELSE IF ~resp.body.json THEN Raised("JSONDecodeError", posts, self1)
        ELSE LET c == ContentOf(resp.body.value) IN
             IF c.exc # "none" THEN Raised(c.exc, posts, self1)
             ELSE IF debug THEN Outcome("none", 0, c.val, posts, self1)
             ELSE IF c.val.t # "str" THEN Raised("TypeError", posts, self1)
             ELSE Outcome("none", 0, PyStr(re_sub(c.val.v)), posts, self1)

-----------------------------------------------------------------------------
(* generate_book_spec and the older generate_book_concept.                 *)

\* the f-string prompt that embeds the book idea
ConceptPrompt(book_idea) == <<"concept_prompt", book_idea>>

\* only the leading fence taken out
StripFence_OpenOnly(response) == str_replace(response, FENCE_OPEN)

\* response.replace("```json\n", "").replace("\n```", "")
StripFence(response) ==
    str_replace(str_replace(response, FENCE_OPEN), FENCE_CLOSE)

\* the cached result cleared before the text is parsed
ParseAndStore_ClearFirst(self, response, posts) ==
    LET parsed == json_loads(StripFence(response)) IN
    IF ~parsed.ok
    THEN Raised("JSONDecodeError", posts, [self EXCEPT !.book_spec = PyNone])
    ELSE Outcome("none", 0, parsed.val, posts,
            [self EXCEPT !.book_spec = dict_to_namespace(parsed.val)])

\* the part of generate_book_spec after the response text is obtained
ParseAndStore(self, response, posts) ==
    LET parsed == json_loads(StripFence(response)) IN
    IF ~parsed.ok THEN Raised("JSONDecodeError", posts, self)
    ELSE Outcome("none", 0, parsed.val, posts,
            [self EXCEPT !.book_spec = dict_to_namespace(parsed.val)])

\* the offline text parsed without taking the fence out
generate_book_spec_OfflineRaw(self, file, resp) ==
    IF self.dry_run = PyBool(TRUE) THEN
        IF ~file.exists THEN Raised("FileNotFoundError", 0, self)
        ELSE LET parsed == json_loads(file.text) IN
             IF ~parsed.ok THEN Raised("JSONDecodeError", 0, self)
             ELSE Outcome("none", 0, parsed.val, 0,
                     [self EXCEPT !.book_spec = dict_to_namespace(parsed.val)])
    ELSE
        LET sent == send_api_payload(self, ConceptPrompt(self.book_idea),
                        DEFAULT_ROLE, DEFAULT_MODEL, DEFAULT_TEMP, FALSE, resp)
        IN  IF sent.exc # "none" THEN sent
            ELSE ParseAndStore(sent.self, sent.ret.v, sent.posts)

\* the request sent before the offline flag is looked at
generate_book_spec_PostFirst(self, file, resp) ==
    LET sent == send_api_payload(self, ConceptPrompt(self.book_idea),
                    DEFAULT_ROLE, DEFAULT_MODEL, DEFAULT_TEMP, FALSE, resp)
    IN  IF sent.exc # "none" THEN sent
        ELSE IF self.dry_run = PyBool(TRUE) THEN
            IF ~file.exists THEN Raised("FileNotFoundError", sent.posts, sent.self)
            ELSE ParseAndStore(sent.self, file.text, sent.posts)
        ELSE ParseAndStore(sent.self, sent.ret.v, sent.posts)

\* generate_book_spec() when the fixture file is file = [exists, text] and
\* the transport would answer resp
generate_book_spec(self, file, resp) ==
    IF self.dry_run = PyBool(TRUE) THEN
        IF ~file.exists THEN Raised("FileNotFoundError", 0, self)
        ELSE ParseAndStore(self, file.text, 0)
    ELSE
        LET sent == send_api_payload(self, ConceptPrompt(self.book_idea),
                        DEFAULT_ROLE, DEFAULT_MODEL, DEFAULT_TEMP, FALSE, resp)
        IN  IF sent.exc # "none" THEN sent
            ELSE ParseAndStore(sent.self, sent.ret.v, sent.posts)

\* generate_book_concept() of the older copy: the text send_api_payload
\* returns, not parsed and not stored
generate_book_concept(self, resp) ==
    send_api_payload(self, ConceptPrompt(self.book_idea),
        DEFAULT_ROLE, DEFAULT_MODEL, DEFAULT_TEMP, FALSE, resp)

-----------------------------------------------------------------------------
(* Inputs of the model.                                                    *)

K_expanded_title ==
    <<"e", "x", "p", "a", "n", "d", "e", "d", "_", "t", "i", "t", "l", "e">>

K_subtitle ==
    <<"s", "u", "b", "t", "i", "t", "l", "e">>

K_target_audience ==
    <<"t", "a", "r", "g", "e", "t", "_", "a", "u", "d", "i", "e", "n", "c", "e">>

K_core_themes ==
    <<"c", "o", "r", "e", "_", "t", "h", "e", "m", "e", "s">>

K_genre_classification ==
    <<"g", "e", "n", "r", "e", "_", "c", "l", "a", "s", "s", "i", "f", "i", "c", "a", "t", "i", "o", "n">>

K_word_count ==
    <<"w", "o", "r", "d", "_", "c", "o", "u", "n", "t">>

K_chapter_structure ==
    <<"c", "h", "a", "p", "t", "e", "r", "_", "s", "t", "r", "u", "c", "t", "u", "r", "e">>

K_unique_selling_proposition ==
    <<"u", "n", "i", "q", "u", "e", "_", "s", "e", "l", "l", "i", "n", "g", "_", "p", "r", "o", "p", "o", "s", "i", "t", "i", "o", "n">>

\* the eight top-level keys of the concept prompt
RequiredKeys ==
    {K_expanded_title, K_subtitle, K_target_audience, K_core_themes,
     K_genre_classification, K_word_count, K_chapter_structure,
     K_unique_selling_proposition}

Quoted(s) == <<"\"">> \o s \o <<"\"">>

Member(key, text) == Quoted(key) \o <<":">> \o text

\* a document with the eight keys, nested objects and lists
DocFull ==
    <<"{">> \o Member(K_expanded_title, Quoted(<<"T">>))
    \o <<",">> \o Member(K_subtitle, Quoted(<<"S">>))
    \o <<",">> \o Member(K_target_audience,
                     <<"{">> \o Member(<<"p">>, Quoted(<<"A">>))
                     \o <<",">> \o Member(<<"s">>, <<"[", "\"", "B", "\"", "]">>)
                     \o <<"}">>)
    \o <<",">> \o Member(K_core_themes, <<"[", "\"", "C", "\"", "]">>)
    \o <<",">> \o Member(K_genre_classification, <<"{", "}">>)
    \o <<",">> \o Member(K_word_count, <<"9">>)
    \o <<",">> \o Member(K_chapter_structure,
                     <<"[", "{">> \o Member(<<"n">>, <<"1">>) \o <<"}", "]">>)
    \o <<",">> \o Member(K_unique_selling_proposition, Quoted(<<"U">>))
    \o <<"}">>

\* a JSON object that lacks seven of the eight keys
DocPartial == <<"{">> \o Member(K_subtitle, Quoted(<<"S">>)) \o <<"}">>

\* a JSON document that is not an object
DocList == <<"[", "1", "]">>

\* text that is not JSON
DocBad == <<"x">>

\* the text wrapped in a Markdown fence tagged json
Wrap(text) == FENCE_OPEN \o text \o FENCE_CLOSE

\* the text behind a reasoning block
Reasoned(text) == THINK_OPEN \o <<"r">> \o THINK_CLOSE \o <<"\n">> \o text

\* response and fixture texts of the client model
Texts ==
    {DocFull, DocPartial, DocList, DocBad, Wrap(DocPartial),
     Reasoned(DocPartial)}

\* values of PERPLEXITY_API_KEY and of the api_key argument
Tokens == {PyNone, PyStr(""), PyStr("key-A")}

Ideas == {"idea"}

Prompts == {"prompt"}

\* HTTP statuses the provider answers with
Statuses == {200, 300, 404, 500}

NotJsonBody == [json |-> FALSE, value |-> PyNone]

JsonBody(value) == [json |-> TRUE, value |-> value]

\* {"choices": [{"message": {"content": content}}]}
ChatBody(content) ==
    JsonBody(PyDict(K_choices :> PyList(<<
        PyDict(K_message :> PyDict(K_content :> content)) >>)))

Bodies ==
    {NotJsonBody,
     JsonBody(PyDict(EmptyMap)),
     JsonBody(PyDict(K_choices :> PyList(<<>>))),
     ChatBody(PyNone)}
    \cup {ChatBody(PyStr(text)) : text \in Texts}

NoResponse == [connected |-> FALSE, status |-> 0, body |-> NotJsonBody]

Responses ==
    {NoResponse}
    \cup {[connected |-> TRUE, status |-> st, body |-> b] :
             st \in Statuses, b \in Bodies}

NoFile == [exists |-> FALSE, text |-> <<>>]

\* tests/book_concept_test_1.json: missing, or holding some text
Files == {NoFile} \cup {[exists |-> TRUE, text |-> text] : text \in Texts}

\* bound on the number of requests of one behaviour
MaxCalls == 2

-----------------------------------------------------------------------------
(* with_spinner: the terminal line and the state of one wrapper call.      *)

\* spinner_chars = "|/-\\"
SPINNER_CHARS == <<"|", "/", "-", "\\">>

\* the text of f"{msg} Done."
DONE_SUFFIX == <<" ", "D", "o", "n", "e", ".">>

\* " " * n
Blank(n) == [i \in 1..n |-> " "]

\* print(msg, char, end="\r"): print joins its arguments with one space
Frame(msg, char) == msg \o <<" ", char>>

\* what the terminal line shows after text is written from its first
\* column over what was there (the text ends with "\r", so the next write
\* starts at the first column again)
Overwrite(line, text) ==
    IF Len(text) >= Len(line) THEN text
    ELSE text \o SubSeq(line, Len(text) + 1, Len(line))

\* nothing of the line is visible
IsBlank(line) == \A i \in 1..Len(line) : line[i] = " "

\* the function has not come back yet
Running == [kind |-> "running", v |-> PyNone]

Returned(value) == [kind |-> "return", v |-> value]

RaisedBy(exc) == [kind |-> "raise", v |-> PyStr(exc)]

\* no call of the wrapper made yet.  wpc and tpc are the places of the
\* wrapper and of the spin thread, stop the stop_event, idx the index of
\* the next spinner character (idx % len(spinner_chars), which is all a
\* frame depends on), line the terminal line, shown the last line ended
\* with a newline, func what the wrapped function did, handed what the
\* wrapper handed to its caller, cleared whether spin's last write left the
\* line blank, late whether a frame was written after the wrapper's exit
NoWrapperCall ==
    [wpc |-> "idle", tpc |-> "none", stop |-> FALSE, idx |-> 0,
     msg |-> <<>>, line |-> <<>>, shown |-> <<>>, func |-> Running,
     handed |-> Running, cleared |-> FALSE, late |-> FALSE]

-----------------------------------------------------------------------------
(* The client as a state machine: a caller constructs clients and calls    *)
(* their methods; the environment, the fixture file and the provider's     *)
(* answer are inputs of each call.                                         *)

NoCall ==
    [op |-> "none", exc |-> "none", excStatus |-> 0, ret |-> PyNone,
     posts |-> 0, given |-> PyNone, env |-> PyNone, debug |-> FALSE,
     dry |-> FALSE, file |-> NoFile, resp |-> NoResponse]

\* the record of a call with outcome o
Call(op, o, given, env, debug, dry, file, resp) ==
    [op |-> op, exc |-> o.exc, excStatus |-> o.excStatus, ret |-> o.ret,
     posts |-> o.posts, given |-> given, env |-> env, debug |-> debug,
     dry |-> dry, file |-> file, resp |-> resp]

Init ==
    /\ client = NoClient
    /\ netCalls = 0
    /\ invocations = 0
    /\ last = NoCall
    /\ lastOk = Unset
    /\ fin = PyNone
    /\ fout = PyNone
    /\ sp = NoWrapperCall

\* generator = PerplexityBookGenerator(book_idea, dry_run): on ValueError
\* the caller gets no object and keeps what it had
Construct ==
    \E env \in Tokens, idea \in Ideas, dry \in BOOLEAN :
        LET o == init(env, idea, dry) IN
        /\ client' = IF o.exc = "none" THEN o.self ELSE client
        /\ lastOk' = IF o.exc = "none" THEN Unset ELSE lastOk
        /\ last' = Call("init", o, env, env, FALSE, dry, NoFile, NoResponse)
        /\ netCalls' = netCalls + o.posts
        /\ UNCHANGED <<invocations, fin, fout, sp>>

\* generator = PerplexityBookGenerator(api_key, book_idea) of the older copy
ConstructLegacy ==
    \E key \in Tokens, env \in Tokens, idea \in Ideas :
        LET o == legacy_init(key, env, idea) IN
        /\ client' = IF o.exc = "none" THEN o.self ELSE client
        /\ lastOk' = IF o.exc = "none" THEN Unset ELSE lastOk
        /\ last' = Call("init", o, key, env, FALSE, FALSE, NoFile, NoResponse)
        /\ netCalls' = netCalls + o.posts
        /\ UNCHANGED <<invocations, fin, fout, sp>>

\* generator.send_api_payload(prompt, debug=debug)
SendApiPayload ==
    /\ client # NoClient
    /\ netCalls < MaxCalls
    /\ \E prompt \in Prompts, debug \in BOOLEAN, resp \in Responses :
        LET o == send_api_payload(client, prompt, DEFAULT_ROLE, DEFAULT_MODEL,
                                  DEFAULT_TEMP, debug, resp) IN
        /\ client' = o.self
        /\ last' = Call("send", o, PyNone, PyNone, debug, FALSE, NoFile, resp)
        /\ netCalls' = netCalls + o.posts
        /\ invocations' = invocations + 1
        /\ UNCHANGED <<lastOk, fin, fout, sp>>

\* generator.generate_book_spec() of an offline client
GenerateOffline ==
    /\ client # NoClient
    /\ client.variant = "current"
    /\ client.dry_run = PyBool(TRUE)
    /\ \E file \in Files :
        LET o == generate_book_spec(client, file, NoResponse) IN
        /\ client' = o.self
        /\ lastOk' = IF o.exc = "none" THEN o.ret ELSE lastOk
        /\ last' = Call("gen", o, PyNone, PyNone, FALSE, TRUE, file, NoResponse)
        /\ netCalls' = netCalls + o.posts
        /\ UNCHANGED <<invocations, fin, fout, sp>>

\* generator.generate_book_spec() of a live client
GenerateLive ==
    /\ client # NoClient
    /\ client.variant = "current"
    /\ client.dry_run # PyBool(TRUE)
    /\ netCalls < MaxCalls
    /\ \E resp \in Responses :
        LET o == generate_book_spec(client, NoFile, resp) IN
        /\ client' = o.self
        /\ lastOk' = IF o.exc = "none" THEN o.ret ELSE lastOk
        /\ last' = Call("gen", o, PyNone, PyNone, FALSE, FALSE, NoFile, resp)
        /\ netCalls' = netCalls + o.posts
        /\ invocations' = invocations + 1
        /\ UNCHANGED <<fin, fout, sp>>

\* generator.generate_book_concept() of the older copy
GenerateBookConcept ==
    /\ client # NoClient
    /\ client.variant = "legacy"
    /\ netCalls < MaxCalls
    /\ \E resp \in Responses :
        LET o == generate_book_concept(client, resp) IN
        /\ client' = o.self
        /\ last' = Call("concept", o, PyNone, PyNone, FALSE, FALSE, NoFile, resp)
        /\ netCalls' = netCalls + o.posts
        /\ invocations' = invocations + 1
        /\ UNCHANGED <<lastOk, fin, fout, sp>>

Next ==
    \/ Construct
    \/ ConstructLegacy
    \/ SendApiPayload
    \/ GenerateOffline
    \/ GenerateLive
    \/ GenerateBookConcept

Spec == Init /\ [][Next]_vars

-----------------------------------------------------------------------------
(* Properties of the client.                                               *)

\* the value is a mapping that has each of the eight required keys
HasRequiredKeys(value) ==
    value.t \in {"dict", "ns"} /\ RequiredKeys \subseteq DOMAIN value.v

\* C1: a generate_book_spec call that returns, returns a record with all
\* eight required keys, and a cached result has all eight as well; a record
\* that lacks one of them is neither returned nor cached.
C1_RecordHasAllKeys ==
    last.op = "gen" =>
        /\ last.exc = "none" => HasRequiredKeys(last.ret)
        /\ client.book_spec # Unset => HasRequiredKeys(client.book_spec)

\* C2: every send_api_payload invocation, called directly or by a
\* generate call, makes exactly one request, whatever the answer: the
\* requests made equal the invocations, and the latest invocation made one.
C2_OneRequestPerInvocation ==
    /\ netCalls = invocations
    /\ last.op \in {"send", "concept"} => last.posts = 1
    /\ (last.op = "gen" /\ ~last.dry) => last.posts = 1

\* a request that was answered with an error status and was not repeated,
\* after an earlier request
C2_Witness ==
    /\ last.op = "send"
    /\ last.exc = "HTTPError"
    /\ last.posts = 1
    /\ netCalls = 2

Is2xx(status) == 200 <= status /\ status < 300

IsErrorStatus(status) == status \in 400..599

\* the body is JSON and has choices[0].message.content
HasContentPath(body) ==
    /\ body.json
    /\ body.value.t = "dict"
    /\ K_choices \in DOMAIN body.value.v
    /\ body.value.v[K_choices].t = "list"
    /\ Len(body.value.v[K_choices].v) >= 1
    /\ body.value.v[K_choices].v[1].t = "dict"
    /\ K_message \in DOMAIN body.value.v[K_choices].v[1].v
    /\ body.value.v[K_choices].v[1].v[K_message].t = "dict"
    /\ K_content \in DOMAIN body.value.v[K_choices].v[1].v[K_message].v

ReturnedString(call) == call.exc = "none" /\ call.ret.t = "str"

\* C3 as stated: send_api_payload returns a string only for a 2xx status
\* whose body has the content path; every non-2xx status ends in an
\* HTTPError carrying the status, and a 2xx body without the path ends in
\* an error of another kind.
C3_Non2xxRaises ==
    (last.op = "send" /\ last.resp.connected) =>
        /\ ReturnedString(last) =>
              Is2xx(last.resp.status) /\ HasContentPath(last.resp.body)
        /\ ~Is2xx(last.resp.status) =>
              last.exc = "HTTPError" /\ last.excStatus = last.resp.status
        /\ (Is2xx(last.resp.status) /\ ~HasContentPath(last.resp.body)) =>
              last.exc \notin {"none", "HTTPError"}

\* C3 amended: the statuses that raise are 4xx and 5xx. A string is
\* returned only for an answered request whose status is not 4xx/5xx and
\* whose body has the content path; a 4xx/5xx status ends in an HTTPError
\* carrying the status; any other status with a body without the path ends
\* in an error of another kind; no string is returned in either case.
C3_ErrorStatusRaises ==
    last.op = "send" =>
        /\ ReturnedString(last) =>
              /\ last.resp.connected
              /\ ~IsErrorStatus(last.resp.status)
              /\ HasContentPath(last.resp.body)
        /\ (last.resp.connected /\ IsErrorStatus(last.resp.status)) =>
              /\ last.exc = "HTTPError"
              /\ last.excStatus = last.resp.status
              /\ last.ret = PyNone
        /\ (last.resp.connected /\ ~IsErrorStatus(last.resp.status)
              /\ ~HasContentPath(last.resp.body)) =>
              /\ last.exc \in {"JSONDecodeError", "KeyError", "IndexError",
                               "TypeError"}
              /\ last.ret = PyNone

\* a 500 answer whose body has the content path ended in an HTTPError
C3_Witness ==
    /\ last.op = "send"
    /\ last.resp.connected
    /\ last.resp.status = 500
    /\ HasContentPath(last.resp.body)
    /\ last.exc = "HTTPError"
    /\ last.excStatus = 500

\* C4: a constructor call with an empty or absent token raises the
\* configuration error, returns no object and makes no request; a call that
\* succeeds leaves a client whose Authorization header is "Bearer " and the
\* token given, and whose api_key is that token.
C4_TokenIsStoredAndSent ==
    last.op = "init" =>
        IF ~Truthy(last.given)
        THEN last.exc = "ValueError" /\ last.ret = PyNone /\ last.posts = 0
        ELSE /\ last.exc = "none"
             /\ client.headers.Authorization = Bearer(last.given.v)
             /\ client.api_key = last.given

\* C6: a generate_book_spec call of an offline client makes no request,
\* a missing fixture is an error, and what it returns is what the fixture
\* text parses to.
C6_OfflineMakesNoRequest ==
    (last.op = "gen" /\ last.dry) =>
        /\ last.posts = 0
        /\ ~last.file.exists => last.exc = "FileNotFoundError"
        /\ last.exc = "none" =>
              /\ last.file.exists
              /\ last.ret = json_loads(StripFence(last.file.text)).val

\* an offline call returned the full record and no request was ever made
C6_Witness ==
    /\ last.op = "gen"
    /\ last.dry
    /\ last.exc = "none"
    /\ HasRequiredKeys(last.ret)
    /\ netCalls = 0

\* C10: the cached book_spec of a client is the attribute tree of what its
\* latest successful generate_book_spec call returned, whatever calls
\* failed since, and it is not set before the first successful call.
C10_CacheIsLatestResult ==
    client # NoClient =>
        client.book_spec =
            IF lastOk = Unset THEN Unset ELSE dict_to_namespace(lastOk)

\* a call failed after a successful one and the cached result is still set
C10_Witness ==
    /\ last.op = "gen"
    /\ last.exc # "none"
    /\ lastOk # Unset
    /\ client.book_spec # Unset

\* the fields of the client other than those named hold the same values
SameExcept(before, after, names) ==
    /\ DOMAIN after = DOMAIN before
    /\ \A f \in (DOMAIN before) \ names : after[f] = before[f]

\* the step is a call of send_api_payload, generate_book_spec or
\* generate_book_concept
ClientCallStep == last'.op \in {"send", "gen", "concept"}

\* C11 as stated: a call of send_api_payload or of a generate method
\* changes no field of the client other than the cached book_spec, whether
\* the call returns or raises.
C11_OnlyCacheChanges ==
    [][ClientCallStep => SameExcept(client, client', {"book_spec"})]_vars

\* C11 amended: such a call changes no field of the client other than the
\* cached book_spec and the payload attribute. A call that makes a request
\* leaves the request body it built in payload, whether it returns or
\* raises; a call that makes none leaves payload alone; send_api_payload
\* and generate_book_concept leave book_spec alone, and so does a generate
\* call that raises.
C11_OnlyCacheAndPayloadChange ==
    [][ClientCallStep =>
          /\ SameExcept(client, client', {"book_spec", "payload"})
          /\ last'.posts = 0 => client'.payload = client.payload
          /\ last'.posts > 0 =>
                /\ client'.payload # Unset
                /\ client'.payload.model = DEFAULT_MODEL
                /\ client'.payload.temperature = DEFAULT_TEMP
          /\ (last'.op # "gen" \/ last'.exc # "none") =>
                client'.book_spec = client.book_spec]_vars

\* a send_api_payload call failed on a client that holds a cached result:
\* the request body is stored and the cached result is still there
C11_Witness ==
    /\ last.op = "send"
    /\ last.exc # "none"
    /\ last.posts = 1
    /\ client.payload # Unset
    /\ client.book_spec # Unset
    /\ client.base_url = BASE_URL

-----------------------------------------------------------------------------
(* The functions of the client studied on their own: fin is the input,     *)
(* fout = [done, r] the results once the function has been applied.        *)

NotRun == [done |-> FALSE, r |-> PyNone]

Ran(r) == [done |-> TRUE, r |-> r]

\* the clients the functions are applied on
LiveClient == init(PyStr("key-A"), "idea", FALSE).self

OfflineClient == init(PyStr("key-A"), "idea", TRUE).self

\* a 200 answer whose message content is text
OkResponse(text) ==
    [connected |-> TRUE, status |-> 200, body |-> ChatBody(PyStr(text))]

FileOf(text) == [exists |-> TRUE, text |-> text]

RECURSIVE Flatten(_)
\* the pieces of a sequence joined into one text
Flatten(pieces) ==
    IF pieces = <<>> THEN <<>> ELSE Head(pieces) \o Flatten(Tail(pieces))

\* every text made of at most n pieces
TextsOf(pieces, n) ==
    {Flatten(ps) : ps \in UNION {[1..k -> pieces] : k \in 0..n}}

InitWith(inputs) ==
    /\ client = NoClient
    /\ netCalls = 0
    /\ invocations = 0
    /\ last = NoCall
    /\ lastOk = Unset
    /\ fin \in inputs
    /\ fout = NotRun
    /\ sp = NoWrapperCall

\* what is compared of an outcome: the exception, the value returned and
\* the cached result
Result(o) == [exc |-> o.exc, ret |-> o.ret, book_spec |-> o.self.book_spec]

-----------------------------------------------------------------------------
(* send_api_payload as a function of the message content.                  *)

\* bound on the pieces of a message content
MaxThinkPieces == 5

ThinkPieces == {THINK_OPEN, THINK_CLOSE, <<" ">>, <<"\n">>, <<"x">>}

ThinkTexts == TextsOf(ThinkPieces, MaxThinkPieces)

Sanitize ==
    /\ \E debug \in BOOLEAN :
        LET o == send_api_payload(LiveClient, "prompt", DEFAULT_ROLE,
                     DEFAULT_MODEL, DEFAULT_TEMP, debug, OkResponse(fin))
        IN  fout' = Ran([debug |-> debug, exc |-> o.exc, ret |-> o.ret])
    /\ UNCHANGED <<client, netCalls, invocations, last, lastOk, fin, sp>>

NextSanitize == Sanitize

SpecSanitize == InitWith(ThinkTexts) /\ [][NextSanitize]_vars

\* the start of the first complete block of s: the leftmost "<think>" with
\* a "</think>" behind it; 0 when there is none
FirstBlock(s) ==
    LET starts == {i \in 1..Len(s) :
                      /\ MatchAt(s, THINK_OPEN, i)
                      /\ \E c \in (i + Len(THINK_OPEN))..Len(s) :
                             MatchAt(s, THINK_CLOSE, c)}
    IN  IF starts = {} THEN 0
        ELSE CHOOSE i \in starts : \A j \in starts : i <= j

\* the index behind the block that starts at i and the whitespace after it
BlockEnd(s, i) ==
    LET closes == {c \in (i + Len(THINK_OPEN))..Len(s) :
                      MatchAt(s, THINK_CLOSE, c)}
        close  == CHOOSE c \in closes : \A d \in closes : c <= d
        after  == close + Len(THINK_CLOSE)
        rest   == {e \in after..(Len(s) + 1) :
                      \A k \in after..(e - 1) : IsSpace(s[k])}
    IN  CHOOSE e \in rest : \A f \in rest : f <= e

\* s without its first complete block
WithoutFirstBlock(s) ==
    IF FirstBlock(s) = 0 THEN s
    ELSE SubSeq(s, 1, FirstBlock(s) - 1)
         \o SubSeq(s, BlockEnd(s, FirstBlock(s)), Len(s))

RECURSIVE WithoutBlocks(_)
\* s without its first complete block and without the complete blocks of
\* the text behind that block
WithoutBlocks(s) ==
    IF FirstBlock(s) = 0 THEN s
    ELSE SubSeq(s, 1, FirstBlock(s) - 1)
         \o WithoutBlocks(SubSeq(s, BlockEnd(s, FirstBlock(s)), Len(s)))

\* C5 as stated: with debug false the content is returned without its
\* first complete <think>...</think> block and the whitespace behind it,
\* every other character kept, later blocks included.
C5_FirstBlockRemoved ==
    (fout.done /\ ~fout.r.debug) =>
        fout.r.exc = "none" /\ fout.r.ret = PyStr(WithoutFirstBlock(fin))

\* C5 amended: with debug false the content is returned without any of its
\* complete blocks: the first block and the whitespace behind it are taken
\* out, and so are the blocks of the text that follows; every character
\* outside the blocks is kept in order, and content without a complete
\* block is returned as it is. With debug true the content is returned
\* as it is.
C5_EveryBlockRemoved ==
    fout.done =>
        /\ fout.r.exc = "none"
        /\ fout.r.ret = PyStr(IF fout.r.debug THEN fin ELSE WithoutBlocks(fin))
        /\ (~fout.r.debug /\ FirstBlock(fin) = 0) => fout.r.ret = PyStr(fin)

\* a content with two blocks came back with both taken out and the text
\* between them kept
C5_Witness ==
    /\ fout.done
    /\ ~fout.r.debug
    /\ fin = THINK_OPEN \o THINK_CLOSE \o <<"x">> \o THINK_OPEN \o THINK_CLOSE
    /\ fout.r.ret = PyStr(<<"x">>)

-----------------------------------------------------------------------------
(* The parse step of generate_book_spec on a JSON document and on the      *)
(* same document inside a Markdown fence.                                  *)

\* bound on the length of a generated JSON document
MaxDocLen == 5

DocAlphabet == {"[", "]", "\"", "1", "\n", BQ}

\* the JSON documents: the texts over the alphabet that json.loads accepts,
\* and the documents of the client model
JsonDocs ==
    {d \in TextsOf({<<c>> : c \in DocAlphabet}, MaxDocLen) : json_loads(d).ok}
    \cup {DocFull, DocPartial, DocList}

ParseBoth ==
    /\ fout' = Ran([plain   |-> Result(ParseAndStore(LiveClient, fin, 1)),
                    wrapped |-> Result(ParseAndStore(LiveClient, Wrap(fin), 1))])
    /\ UNCHANGED <<client, netCalls, invocations, last, lastOk, fin, sp>>

NextFence == ParseBoth

SpecFence == InitWith(JsonDocs) /\ [][NextFence]_vars

\* C8: for a JSON document D, the text "```json\n" + D + "\n```" parses to
\* the same record, and the same cached result, as D itself, and D, which
\* carries no fence, parses to what json.loads gives for it.
C8_FenceDoesNotChangeResult ==
    fout.done =>
        /\ fout.r.wrapped = fout.r.plain
        /\ fout.r.plain.exc = "none"
        /\ fout.r.plain.ret = json_loads(fin).val

\* a document with backquotes in a string was parsed both ways
C8_Witness ==
    /\ fout.done
    /\ fin = <<"\"", BQ, BQ, BQ, "\"">>
    /\ fout.r.wrapped.ret = PyStr(<<BQ, BQ, BQ>>)

-----------------------------------------------------------------------------
(* generate_book_spec in both modes on the same text.                      *)

\* bound on the pieces of a text given to both modes
MaxModePieces == 4

ModePieces ==
    {THINK_OPEN, THINK_CLOSE, FENCE_OPEN, FENCE_CLOSE, <<"[">>, <<"]">>,
     <<"1">>}

ModeTexts == TextsOf(ModePieces, MaxModePieces) \cup Texts

RunBothModes ==
    /\ fout' = Ran(
          [offline |-> Result(generate_book_spec(OfflineClient,
                                  FileOf(fin), NoResponse)),
           cleaned |-> Result(generate_book_spec(OfflineClient,
                                  FileOf(WithoutBlocks(fin)), NoResponse)),
           live    |-> Result(generate_book_spec(LiveClient,
                                  NoFile, OkResponse(fin)))])
    /\ UNCHANGED <<client, netCalls, invocations, last, lastOk, fin, sp>>

NextModes == RunBothModes

SpecModes == InitWith(ModeTexts) /\ [][NextModes]_vars

\* C7 as stated: for every text T the offline call with fixture T and the
\* live call whose 200 answer carries T as content have the same outcome:
\* the same exception, the same record returned, the same cached result.
C7_SameOutcome == fout.done => fout.r.offline = fout.r.live

\* C7 amended: the live path also takes the <think> blocks out of the
\* content, which the offline path does not do to the fixture. The live
\* call on content T has the outcome of the offline call on the fixture
\* that holds T without its complete <think> blocks, so the two modes
\* agree on every T that has no complete <think> block.
C7_SameOutcomeOnCleanedText ==
    fout.done =>
        /\ fout.r.live = fout.r.cleaned
        /\ FirstBlock(fin) = 0 => fout.r.live = fout.r.offline

\* a fenced document without a <think> block gave the same record in both
\* modes
C7_Witness ==
    /\ fout.done
    /\ fin = FENCE_OPEN \o <<"[", "]">> \o FENCE_CLOSE
    /\ fout.r.live.exc = "none"
    /\ fout.r.live.ret = PyList(<<>>)
    /\ fout.r.offline = fout.r.live

-----------------------------------------------------------------------------
(* _dict_to_namespace on nested values.                                    *)

\* bound on the number of nodes (mappings, lists, primitives) of a value
MaxNodes == 4

NsPrims == {PyStr(<<"v">>), PyInt(1)}

NsKeys == {<<"a">>, <<"b">>}

RECURSIVE SumOf(_, _)
\* the sum of f over the set S of its arguments
SumOf(f, S) ==
    IF S = {} THEN 0
    ELSE LET x == CHOOSE y \in S : TRUE IN f[x] + SumOf(f, S \ {x})

RECURSIVE Size(_)
\* the number of nodes of a value
Size(value) ==
    IF value.t \in {"list", "dict"}
    THEN 1 + SumOf([k \in DOMAIN value.v |-> Size(value.v[k])], DOMAIN value.v)
    ELSE 1

RECURSIVE ValuesUpTo(_)
RECURSIVE ListsUpTo(_)
RECURSIVE MapsUpTo(_, _)

\* the values of at most n nodes built from mappings, lists and primitives
ValuesUpTo(n) ==
    IF n <= 0 THEN {}
    ELSE NsPrims
         \cup {PyList(xs) : xs \in ListsUpTo(n - 1)}
         \cup {PyDict(f) : f \in MapsUpTo(n - 1, NsKeys)}

\* the sequences of values of at most m nodes in all
ListsUpTo(m) ==
    {<<>>} \cup UNION {{<<x>> \o rest : rest \in ListsUpTo(m - Size(x))} :
                          x \in ValuesUpTo(m)}

\* the mappings from some of the keys to values of at most m nodes in all
MapsUpTo(m, keys) ==
    {EmptyMap}
    \cup UNION {{MapPut(rest, k, x) :
                    rest \in MapsUpTo(m - Size(x), keys \ {k})} :
                  k \in keys, x \in ValuesUpTo(m)}

Convert ==
    /\ fout' = Ran(dict_to_namespace(fin))
    /\ UNCHANGED <<client, netCalls, invocations, last, lastOk, fin, sp>>

NextNamespace == Convert

SpecNamespace == InitWith(ValuesUpTo(MaxNodes)) /\ [][NextNamespace]_vars

RECURSIVE Preserved(_, _)
\* out has the structure of data: an attribute node with the same keys for
\* a mapping, a list of the same length for a list, the same value for a
\* primitive, and so on below each key and index
Preserved(data, out) ==
    IF data.t = "dict" THEN
        /\ out.t = "ns"
        /\ DOMAIN out.v = DOMAIN data.v
        /\ \A k \in DOMAIN data.v : Preserved(data.v[k], out.v[k])
    ELSE IF data.t = "list" THEN
        /\ out.t = "list"
        /\ Len(out.v) = Len(data.v)
        /\ \A i \in 1..Len(data.v) : Preserved(data.v[i], out.v[i])
    ELSE out = data

IsPrimitive(value) == value.t \notin {"dict", "list", "ns"}

\* C9: the conversion keeps the structure of every nested value: mappings
\* become attribute nodes with the same keys, lists keep length and order
\* with their items converted, mappings inside lists included; primitives
\* and lists of primitives come back unchanged.
C9_StructurePreserved ==
    fout.done =>
        /\ Preserved(fin, fout.r)
        /\ IsPrimitive(fin) => fout.r = fin
        /\ (fin.t = "list" /\ \A i \in 1..Len(fin.v) : IsPrimitive(fin.v[i]))
              => fout.r = fin

\* a mapping inside a list inside a mapping became an attribute node
C9_Witness ==
    /\ fout.done
    /\ fin = PyDict(<<"a">> :> PyList(<<PyDict(<<"b">> :> PyInt(1))>>))
    /\ fout.r.v[<<"a">>].v[1] = PyNamespace(<<"b">> :> PyInt(1))

-----------------------------------------------------------------------------
(* with_spinner: the wrapper runs the wrapped function in the caller's     *)
(* thread while the spin thread draws frames; the steps of the two         *)
(* interleave.                                                             *)

LOADING == <<"L", "o", "a", "d", "i", "n", "g", ".", ".", ".">>

\* the msg arguments of the decorator: the default and another one
Msgs == {LOADING, <<"W", "a", "i", "t">>}

\* what a wrapped function returns, and what it raises
Results == {PyNone, PyInt(1)}

Excs == {"ValueError", "KeyboardInterrupt"}

SpinnerStep(new) ==
    /\ sp' = new
    /\ UNCHANGED <<client, netCalls, invocations, last, lastOk, fin, fout>>

\* a join that does not wait for the thread
thread_join_NoWait(tpc) == TRUE

\* thread.join() returns once the thread has terminated
thread_join(tpc) == tpc = "dead"

\* wrapper(*args, **kwargs) is called: stop_event = threading.Event(),
\* thread = threading.Thread(target=spin), thread.daemon = True
WrapperEnter ==
    /\ sp.wpc \in {"idle", "exit"}
    /\ sp.tpc \in {"none", "dead"}
    /\ \E msg \in Msgs :
        SpinnerStep([sp EXCEPT !.wpc = "created", !.tpc = "new",
                               !.stop = FALSE, !.idx = 0, !.msg = msg,
                               !.func = Running, !.handed = Running,
                               !.cleared = FALSE, !.late = FALSE])

\* thread.start()
ThreadStart ==
    /\ sp.wpc = "created"
    /\ SpinnerStep([sp EXCEPT !.wpc = "call", !.tpc = "test"])

\* result = func(*args, **kwargs) comes back with a value
FuncReturns ==
    /\ sp.wpc = "call"
    /\ \E value \in Results :
        SpinnerStep([sp EXCEPT !.wpc = "finally", !.func = Returned(value)])

\* func(*args, **kwargs) raises
FuncRaises ==
    /\ sp.wpc = "call"
    /\ \E exc \in Excs :
        SpinnerStep([sp EXCEPT !.wpc = "finally", !.func = RaisedBy(exc)])

\* finally: stop_event.set()
StopEventSet ==
    /\ sp.wpc = "finally"
    /\ SpinnerStep([sp EXCEPT !.wpc = "join", !.stop = TRUE])

\* thread.join()
ThreadJoin ==
    /\ sp.wpc = "join"
    /\ thread_join(sp.tpc)
    /\ SpinnerStep([sp EXCEPT !.wpc = "print"])

\* print(f"{msg} Done."): the text and a newline
PrintDone ==
    /\ sp.wpc = "print"
    /\ SpinnerStep([sp EXCEPT !.wpc = "leave",
                              !.shown = Overwrite(sp.line, sp.msg \o DONE_SUFFIX),
                              !.line = <<>>])

\* the finally block is over: return result, or the exception goes on
WrapperExit ==
    /\ sp.wpc = "leave"
    /\ SpinnerStep([sp EXCEPT !.wpc = "exit", !.handed = sp.func])

\* while not stop_event.is_set():
SpinTest ==
    /\ sp.tpc = "test"
    /\ SpinnerStep([sp EXCEPT !.tpc = IF sp.stop THEN "clear" ELSE "print"])

\* print(msg, spinner_chars[idx % len(spinner_chars)], end="\r",
\* flush=True); idx += 1
SpinPrint ==
    /\ sp.tpc = "print"
    /\ SpinnerStep([sp EXCEPT
            !.tpc = "sleep",
            !.line = Overwrite(sp.line, Frame(sp.msg, SPINNER_CHARS[sp.idx + 1])),
            !.idx = (sp.idx + 1) % Len(SPINNER_CHARS),
            !.late = sp.late \/ sp.wpc = "exit"])

\* time.sleep(0.1)
SpinSleep ==
    /\ sp.tpc = "sleep"
    /\ SpinnerStep([sp EXCEPT !.tpc = "test"])

\* print(" " * (len(msg) + 2), end="\r"), and spin returns
SpinClear ==
    /\ sp.tpc = "clear"
    /\ LET line == Overwrite(sp.line, Blank(Len(sp.msg) + 2)) IN
       SpinnerStep([sp EXCEPT !.tpc = "dead", !.line = line,
                              !.cleared = IsBlank(line)])

NextSpinner ==
    \/ WrapperEnter
    \/ ThreadStart
    \/ FuncReturns
    \/ FuncRaises
    \/ StopEventSet
    \/ ThreadJoin
    \/ PrintDone
    \/ WrapperExit
    \/ SpinTest
    \/ SpinPrint
    \/ SpinSleep
    \/ SpinClear

\* the steps the wrapper takes by itself, and those of the spin thread
WrapperRuns == ThreadStart \/ StopEventSet \/ ThreadJoin \/ PrintDone \/ WrapperExit

SpinRuns == SpinTest \/ SpinPrint \/ SpinSleep \/ SpinClear

\* both threads keep being scheduled; nothing makes the wrapped function
\* come back, and nothing makes the caller call again
SpecSpinner ==
    /\ Init
    /\ [][NextSpinner]_vars
    /\ WF_vars(WrapperRuns)
    /\ WF_vars(SpinRuns)

\* the wrapper has handed over to its caller
WrapperExited == sp.wpc = "exit"

\* the spin thread has left its loop, cleared its line and terminated
SpinnerGone == sp.tpc = "dead" /\ sp.cleared

\* C12: whether the wrapped function returns or raises, when the wrapper
\* exits the stop event is set, the spin thread has left its loop, cleared
\* its line and terminated, and what the wrapper hands back is what the
\* function returned or raised; no frame is ever written after the exit;
\* and once the function has come back, the spin thread terminates and the
\* wrapper exits.
C12_SpinnerStoppedOnEveryExit ==
    /\ [](WrapperExited =>
            /\ sp.stop
            /\ SpinnerGone
            /\ sp.func # Running
            /\ sp.handed = sp.func)
    /\ [](~sp.late)
    /\ [](sp.wpc \in {"finally", "join", "print", "leave"} =>
            <>(WrapperExited /\ SpinnerGone))

\* the function raised after frames were drawn, and the wrapper has let the
\* exception go on with the spinner gone and the Done line shown
C12_Witness ==
    /\ WrapperExited
    /\ sp.func = RaisedBy("ValueError")
    /\ sp.handed = sp.func
    /\ SpinnerGone
    /\ sp.idx # 0
    /\ sp.shown = sp.msg \o DONE_SUFFIX

====
